---- MODULE Spec2Model ----
(***************************************************************************)
(* A model of brenparse/parser.py: the BRENDA html table parsers.          *)
(*                                                                         *)
(* Python strings are modelled as sequences of one-character strings, so   *)
(* that split, strip, replace, lower and capitalize are computed character *)
(* by character as the interpreter computes them.  Python numbers (float   *)
(* and int) are modelled as exact decimal fractions [n, d] with d a power  *)
(* of ten, in lowest decimal form.                                         *)
(***************************************************************************)
EXTENDS Integers, Sequences, FiniteSets, TLC

(***************************************************************************)
(* Bounds of the model.                                                    *)
(***************************************************************************)
\* organism names fed to _normalize_name are built from at most MaxWords words
MaxWords == 5

(***************************************************************************)
(* Python str primitives.                                                  *)
(***************************************************************************)
UpperChars == <<"A","B","C","D","E","F","G","H","I","J","K","L","M",
                "N","O","P","Q","R","S","T","U","V","W","X","Y","Z">>
LowerChars == <<"a","b","c","d","e","f","g","h","i","j","k","l","m",
                "n","o","p","q","r","s","t","u","v","w","x","y","z">>
DigitChars == <<"0","1","2","3","4","5","6","7","8","9">>

\* str.isspace() of one character
IsSpace(c) == c \in {" ", "\t", "\n"}

Min(S) == CHOOSE m \in S : \A k \in S : m <= k

LowerChar(c) ==
  IF \E i \in 1..26 : UpperChars[i] = c
  THEN LowerChars[CHOOSE i \in 1..26 : UpperChars[i] = c]
  ELSE c

UpperChar(c) ==
  IF \E i \in 1..26 : LowerChars[i] = c
  THEN UpperChars[CHOOSE i \in 1..26 : LowerChars[i] = c]
  ELSE c

\* str.lower()
lower(s) == [i \in 1..Len(s) |-> LowerChar(s[i])]

\* str.capitalize(): first character upper-cased, the rest lower-cased
capitalize(s) == [i \in 1..Len(s) |-> IF i = 1 THEN UpperChar(s[i]) ELSE LowerChar(s[i])]

\* s[i:i+len(p)] == p
StartsWithAt(s, i, p) == /\ i + Len(p) - 1 <= Len(s)
                         /\ SubSeq(s, i, i + Len(p) - 1) = p

\* mutant of Contains: the header must equal the name (== instead of in)
Contains_equal(p, s) == p = s

\* p in s
Contains(p, s) == \E i \in 1..(Len(s) + 1) : StartsWithAt(s, i, p)

\* the elements of a set of integers in increasing order
Sorted(S) == [k \in 1..Cardinality(S) |-> CHOOSE p \in S : Cardinality({ q \in S : q <= p }) = k]

\* Cutting s at every occurrence of one of the separators seps (earlier
\* alternatives win, as in the regex ',|and'); empty pieces are kept.  The
\* separators of the source (newline, comma, "-", "_", "to", "and") cannot
\* overlap themselves or one another, so the leftmost scan cuts at every
\* occurrence.
SplitAt(s, seps) ==
  LET at(i) == { k \in 1..Len(seps) : StartsWithAt(s, i, seps[k]) }
      cuts  == Sorted({ i \in 1..Len(s) : at(i) # {} })
      after(j) == IF j = 0 THEN 1 ELSE cuts[j] + Len(seps[Min(at(cuts[j]))])
  IN  [j \in 1..(Len(cuts) + 1) |->
         SubSeq(s, after(j - 1), IF j > Len(cuts) THEN Len(s) ELSE cuts[j] - 1)]

\* str.split(sep) with an explicit separator
split(s, sep) == SplitAt(s, << sep >>)

\* re.split(',|and', s)
re_split(seps, s) == SplitAt(s, seps)

\* str.split() without argument: runs of whitespace separate, no empty pieces
split_ws(s) ==
  LET first == Sorted({ i \in 1..Len(s) : ~ IsSpace(s[i]) /\ (i = 1 \/ IsSpace(s[i - 1])) })
      last  == Sorted({ i \in 1..Len(s) : ~ IsSpace(s[i]) /\ (i = Len(s) \/ IsSpace(s[i + 1])) })
  IN  [j \in 1..Len(first) |-> SubSeq(s, first[j], last[j])]

\* sep.join(pieces)
RECURSIVE join(_, _)
join(sep, pieces) ==
  IF pieces = << >> THEN << >>
  ELSE IF Len(pieces) = 1 THEN pieces[1]
  ELSE pieces[1] \o sep \o join(sep, Tail(pieces))

\* pieces[:n]
Take(pieces, n) == SubSeq(pieces, 1, IF Len(pieces) < n THEN Len(pieces) ELSE n)

\* str.strip(chars) for a one-character chars
RECURSIVE lstrip(_, _)
lstrip(s, c) == IF s # << >> /\ s[1] = c THEN lstrip(Tail(s), c) ELSE s

RECURSIVE rstrip(_, _)
rstrip(s, c) == IF s # << >> /\ s[Len(s)] = c THEN rstrip(SubSeq(s, 1, Len(s) - 1), c) ELSE s

strip(s, c) == rstrip(lstrip(s, c), c)

\* str.replace(c, '') for a one-character c
remove(s, c) == SelectSeq(s, LAMBDA x : x # c)

(***************************************************************************)
(* _BrendaBaseClass._normalize_name                                        *)
(***************************************************************************)
_normalize_name(organism) ==
  LET o1 == IF Len(split_ws(organism)) < Len(split(organism, << "_" >>))
            THEN join(<< " " >>, split(organism, << "_" >>))
            ELSE organism
      o2 == join(<< " " >>, Take(split_ws(o1), 2))
  IN  capitalize(lower(o2))

(***************************************************************************)
(* Python numbers and float().                                             *)
(***************************************************************************)
\* lowest decimal form of n/d, d a power of ten
RECURSIVE Reduce(_, _)
Reduce(n, d) == IF d > 1 /\ n % 10 = 0 THEN Reduce(n \div 10, d \div 10)
                ELSE [n |-> n, d |-> d]

RECURSIVE Pow10(_)
Pow10(k) == IF k = 0 THEN 1 ELSE 10 * Pow10(k - 1)

IsDigit(c) == \E i \in 1..10 : DigitChars[i] = c
DigitVal(c) == (CHOOSE i \in 1..10 : DigitChars[i] = c) - 1

RECURSIVE DigitsVal(_)
DigitsVal(ds) == IF ds = << >> THEN 0
                 ELSE 10 * DigitsVal(SubSeq(ds, 1, Len(ds) - 1)) + DigitVal(ds[Len(ds)])

\* float(s) for decimal literals: [sign] digits [. digits] | [sign] . digits.
\* ok is FALSE where float() raises ValueError.  (Exponents, "inf", "nan"
\* and digit-group underscores never occur in the cells of this model.)
float(s) ==
  LET signed == s # << >> /\ s[1] \in {"+", "-"}
      body   == IF signed THEN Tail(s) ELSE s
      dots   == { i \in 1..Len(body) : body[i] = "." }
      ds     == remove(body, ".")
      ok     == /\ Cardinality(dots) <= 1
                /\ ds # << >>
                /\ \A i \in 1..Len(ds) : IsDigit(ds[i])
      frac   == IF dots = {} THEN 0 ELSE Len(body) - Min(dots)
      mag    == DigitsVal(ds)
      num    == Reduce(IF signed /\ s[1] = "-" THEN 0 - mag ELSE mag, Pow10(frac))
  IN  IF ok THEN [ok |-> TRUE, n |-> num.n, d |-> num.d]
      ELSE [ok |-> FALSE, n |-> 0, d |-> 1]

\* round(p/q) for q > 0: Python 3 rounds to the nearest integer, ties to even
round(p, q) ==
  LET fl == p \div q
      r  == p - fl * q
  IN  IF 2 * r < q THEN fl
      ELSE IF 2 * r > q THEN fl + 1
      ELSE IF fl % 2 = 0 THEN fl ELSE fl + 1

\* round((float(a)+float(b))/2) for parsed a, b
round_mean(a, b) == round(a.n * b.d + b.n * a.d, 2 * a.d * b.d)

(***************************************************************************)
(* Cell values: a str (non-numeric tables, unparsed cells) or a number.    *)
(***************************************************************************)
Str(s) == [t |-> "str", s |-> s, n |-> 0, d |-> 1]
Num(n, d) == [t |-> "num", s |-> << >>, n |-> n, d |-> d]

additionalinformation == <<"a","d","d","i","t","i","o","n","a","l","i","n","f","o","r","m","a","t","i","o","n">>
comma_additionalinformation == << "," >> \o additionalinformation

\* Outcomes of a step that may return None or raise
Returned(v) == [kind |-> "value", v |-> v, exc |-> "None"]
ReturnedNone == [kind |-> "None", v |-> Str(<< >>), exc |-> "None"]
Raised(e) == [kind |-> "raise", v |-> Str(<< >>), exc |-> e]

\* mutant of coerce_numeric: an unrecognized value skips the row instead of
\* raising ValueError
coerce_numeric_skip(value) ==
  LET f == float(value) IN
  IF f.ok THEN Returned(Num(f.n, f.d))
  ELSE IF Len(split(value, << "-" >>)) = 2
       THEN LET a == split(value, << "-" >>)[1]
                b == split(value, << "-" >>)[2]
            IN  IF a = comma_additionalinformation \/ b = comma_additionalinformation
                THEN ReturnedNone
                ELSE IF float(a).ok /\ float(b).ok
                     THEN Returned(Num(round_mean(float(a), float(b)), 1))
                     ELSE ReturnedNone
  ELSE IF Len(split(value, << "t", "o" >>)) = 2
       THEN LET a == split(value, << "t", "o" >>)[1]
                b == split(value, << "t", "o" >>)[2]
            IN  IF float(a).ok /\ float(b).ok
                THEN Returned(Num(round_mean(float(a), float(b)), 1))
                ELSE ReturnedNone
  ELSE ReturnedNone

\* The numeric branch of _parse_single_div: value is the cell text after
\* strip(',') and replace(' ', '').
coerce_numeric(value) ==
  LET f == float(value) IN
  IF f.ok THEN Returned(Num(f.n, f.d))
  ELSE IF Len(split(value, << "-" >>)) = 2
       THEN LET a == split(value, << "-" >>)[1]
                b == split(value, << "-" >>)[2]
            IN  IF a = comma_additionalinformation \/ b = comma_additionalinformation
                THEN ReturnedNone
                ELSE IF float(a).ok /\ float(b).ok
                     THEN Returned(Num(round_mean(float(a), float(b)), 1))
                     ELSE Raised("ValueError")
  ELSE IF Len(split(value, << "t", "o" >>)) = 2
       THEN LET a == split(value, << "t", "o" >>)[1]
                b == split(value, << "t", "o" >>)[2]
            IN  IF float(a).ok /\ float(b).ok
                THEN Returned(Num(round_mean(float(a), float(b)), 1))
                ELSE Raised("ValueError")
  ELSE IF value = additionalinformation THEN ReturnedNone
  ELSE Raised("ValueError")

\* mutant of parse_value: the sentinel is rejected only by the numeric branch
parse_value_keep(cell, numeric) ==
  LET value == remove(strip(cell, ","), " ")
  IN  IF numeric THEN coerce_numeric(value) ELSE Returned(Str(value))

\* The value cell of a row: strip, remove spaces, coerce when numeric, and
\* reject the additional-information sentinel.
parse_value(cell, numeric) ==
  LET value == remove(strip(cell, ","), " ")
      c     == IF numeric THEN coerce_numeric(value) ELSE Returned(Str(value))
  IN  IF c.kind = "value" /\ c.v = Str(additionalinformation) THEN ReturnedNone
      ELSE c

(***************************************************************************)
(* Row parsers.  A div is [class, text, links]: its class attribute, its   *)
(* get_text(',') and the texts of its <a> elements in document order.      *)
(***************************************************************************)
\* list(filter(None, [item.get_text() for item in div.find_all("a")]))
potential_ids(div) == SelectSeq(div.links, LAMBDA x : x # << >>)

\* s in list
InList(s, list) == \E i \in 1..Len(list) : list[i] = s

\* re.split(',|and', cell.replace(' ', '').replace(';', '').replace('-', ''))
split_ids(cell) ==
  re_split(<< << "," >>, << "a", "n", "d" >> >>, remove(remove(remove(cell, " "), ";"), "-"))

Record(value, information, organism, uniprot_id_list) ==
  [value |-> value, information |-> information, organism |-> organism,
   uniprot_id_list |-> uniprot_id_list]

\* _ThreeLevelDiv._parse_single_div (Python parts[k] is parts[k+1] here)
_ThreeLevelDiv_parse_single_div(div, numeric) ==
  LET potential == potential_ids(div)
      parts     == split(div.text, << "\n" >>)
  IN  IF Len(parts) > 3
      THEN LET value == parse_value(parts[2], numeric)
               organism == _normalize_name(strip(parts[3], ","))
               uniprot_id_list == SelectSeq(split_ids(parts[4]), LAMBDA s : InList(s, potential))
           IN  IF value.kind # "value" THEN value
               ELSE IF uniprot_id_list = << << >> >> THEN ReturnedNone
               ELSE Returned(Record(value.v, << >>, organism, uniprot_id_list))
      ELSE ReturnedNone

\* _FourLevelDiv._parse_single_div; parts[4] of a row with exactly four
\* parts raises IndexError
_FourLevelDiv_parse_single_div(div, numeric) ==
  LET potential == potential_ids(div)
      parts     == split(div.text, << "\n" >>)
  IN  IF Len(parts) > 3
      THEN LET value == parse_value(parts[2], numeric)
               information == strip(parts[3], ",")
               organism == _normalize_name(strip(parts[4], ","))
               uniprot_id_list == SelectSeq(split_ids(parts[5]), LAMBDA s : InList(s, potential))
           IN  IF value.kind # "value" THEN value
               ELSE IF Len(parts) < 5 THEN Raised("IndexError")
               ELSE IF uniprot_id_list = << << >> >> THEN ReturnedNone
               ELSE Returned(Record(value.v, information, organism, uniprot_id_list))
      ELSE ReturnedNone

\* Organism._parse_single_div
Organism_parse_single_div(div) ==
  LET potential == potential_ids(div)
      parts     == split(div.text, << "\n" >>)
  IN  IF Len(parts) > 3
      THEN LET organism == _normalize_name(strip(parts[2], ","))
               uniprot_id_list == SelectSeq(split_ids(parts[5]),
                                            LAMBDA s : InList(s, potential) /\ s # << >>)
           IN  IF Len(parts) < 5 THEN Raised("IndexError")
               ELSE IF uniprot_id_list = << << >> >> THEN ReturnedNone
               ELSE Returned(Record(Str(<< >>), << >>, organism, uniprot_id_list))
      ELSE ReturnedNone

(***************************************************************************)
(* _split_divs: the per-group mappings.  A dict is a function on its keys. *)
(***************************************************************************)
EmptyDict == [k \in {} |-> << >>]

\* d.get(k) is None, for dicts whose values are never None
Missing(d, k) == k \notin DOMAIN d

\* outcome of _split_divs: the mapping, or the exception of the first row
\* that raised; results lists what _parse_single_div did on each row it was
\* handed, in call order
SplitDone(data, results) ==
  [kind |-> "value", data |-> data, exc |-> "None", results |-> results]
SplitRaised(exc, results) ==
  [kind |-> "raise", data |-> EmptyDict, exc |-> exc, results |-> results]

\* the loop over uniprot_id_list of _ThreeLevelDiv._split_divs
RECURSIVE append_value(_, _, _)
append_value(ids, uniprot_id_list, value) ==
  IF uniprot_id_list = << >> THEN ids
  ELSE LET u  == uniprot_id_list[1]
           i1 == IF Missing(ids, u) THEN ids @@ (u :> << >>) ELSE ids
       IN  append_value([i1 EXCEPT ![u] = Append(@, value)], Tail(uniprot_id_list), value)

\* the body of the row loop of _ThreeLevelDiv._split_divs for one parsed row
ThreeLevel_add(all_data, r) ==
  LET a1 == IF Missing(all_data, r.organism)
            THEN all_data @@ (r.organism :> EmptyDict) ELSE all_data
  IN  [a1 EXCEPT ![r.organism] = append_value(@, r.uniprot_id_list, r.value)]

RECURSIVE ThreeLevel_split_from(_, _, _, _, _)
\* one pass of the row loop, result being what _parse_single_div gave for divs[i]
ThreeLevel_split_row(divs, numeric, i, all_data, results, result) ==
  IF result.kind = "raise" THEN SplitRaised(result.exc, Append(results, result))
  ELSE ThreeLevel_split_from(divs, numeric, i + 1,
                             IF result.kind = "None" THEN all_data
                             ELSE ThreeLevel_add(all_data, result.v),
                             Append(results, result))

ThreeLevel_split_from(divs, numeric, i, all_data, results) ==
  IF i > Len(divs) THEN SplitDone(all_data, results)
  ELSE ThreeLevel_split_row(divs, numeric, i, all_data, results,
                            _ThreeLevelDiv_parse_single_div(divs[i], numeric))

\* _ThreeLevelDiv._split_divs
_ThreeLevelDiv_split_divs(divs, numeric) == ThreeLevel_split_from(divs, numeric, 1, EmptyDict, << >>)

\* the inner loop of _FourLevelDiv._split_divs
RECURSIVE append_value_info(_, _, _, _)
append_value_info(ids, uniprot_id_list, information, value) ==
  IF uniprot_id_list = << >> THEN ids
  ELSE LET u  == uniprot_id_list[1]
           i1 == IF Missing(ids, u) THEN ids @@ (u :> EmptyDict) ELSE ids
           i2 == IF Missing(i1[u], information)
                 THEN [i1 EXCEPT ![u] = @ @@ (information :> << >>)] ELSE i1
       IN  append_value_info([i2 EXCEPT ![u][information] = Append(@, value)],
                             Tail(uniprot_id_list), information, value)

\* the body of the row loop of _FourLevelDiv._split_divs for one parsed row
FourLevel_add(all_data, r) ==
  LET a1 == IF Missing(all_data, r.organism)
            THEN all_data @@ (r.organism :> EmptyDict) ELSE all_data
  IN  [a1 EXCEPT ![r.organism] =
         append_value_info(@, r.uniprot_id_list, r.information, r.value)]

RECURSIVE FourLevel_split_from(_, _, _, _, _)
\* one pass of the row loop, result being what _parse_single_div gave for divs[i]
FourLevel_split_row(divs, numeric, i, all_data, results, result) ==
  IF result.kind = "raise" THEN SplitRaised(result.exc, Append(results, result))
  ELSE FourLevel_split_from(divs, numeric, i + 1,
                            IF result.kind = "None" THEN all_data
                            ELSE FourLevel_add(all_data, result.v),
                            Append(results, result))

FourLevel_split_from(divs, numeric, i, all_data, results) ==
  IF i > Len(divs) THEN SplitDone(all_data, results)
  ELSE FourLevel_split_row(divs, numeric, i, all_data, results,
                           _FourLevelDiv_parse_single_div(divs[i], numeric))

\* _FourLevelDiv._split_divs
_FourLevelDiv_split_divs(divs, numeric) == FourLevel_split_from(divs, numeric, 1, EmptyDict, << >>)

\* the body of the row loop of Organism._split_divs for one parsed row
Organism_add(all_data, r) ==
  LET a1 == IF Missing(all_data, r.organism)
            THEN all_data @@ (r.organism :> << >>) ELSE all_data
  IN  [a1 EXCEPT ![r.organism] = @ \o r.uniprot_id_list]

RECURSIVE Organism_split_from(_, _, _, _)
\* one pass of the row loop, result being what _parse_single_div gave for divs[i]
Organism_split_row(divs, i, all_data, results, result) ==
  IF result.kind = "raise" THEN SplitRaised(result.exc, Append(results, result))
  ELSE Organism_split_from(divs, i + 1,
                           IF result.kind = "None" THEN all_data
                           ELSE Organism_add(all_data, result.v),
                           Append(results, result))

Organism_split_from(divs, i, all_data, results) ==
  IF i > Len(divs) THEN SplitDone(all_data, results)
  ELSE Organism_split_row(divs, i, all_data, results, Organism_parse_single_div(divs[i]))

\* Organism._split_divs
Organism_split_divs(divs) == Organism_split_from(divs, 1, EmptyDict, << >>)

(***************************************************************************)
(* The table classes.                                                      *)
(***************************************************************************)
TableClasses == { "TemperatureOptimum", "Cofactor", "Km", "Organism" }

BaseClass(table) ==
  CASE table \in { "TemperatureOptimum", "Cofactor" } -> "_ThreeLevelDiv"
    [] table = "Km" -> "_FourLevelDiv"
    [] table = "Organism" -> "Organism"

Numeric(table) == table \in { "TemperatureOptimum", "Km" }

table_id(table) ==
  CASE table = "TemperatureOptimum" -> "tab41"
    [] table = "Cofactor" -> "tab48"
    [] table = "Km" -> "tab12"
    [] table = "Organism" -> "tab20"

table_name(table) ==
  CASE table = "TemperatureOptimum" ->
         <<"T","E","M","P","E","R","A","T","U","R","E"," ","O","P","T","I","M","U","M">>
    [] table = "Cofactor" -> <<"C","O","F","A","C","T","O","R">>
    [] table = "Km" -> <<"K","M"," ","V","A","L","U","E"," ","[","m","M","]">>
    [] table = "Organism" -> <<"O","R","G","A","N","I","S","M">>

(***************************************************************************)
(* _get_table_divs.  The soup is a sequence of regions [id, divs].         *)
(***************************************************************************)
\* an attribute holding None, or holding a dict
None == [none |-> TRUE, dict |-> EmptyDict]
Dict(d) == [none |-> FALSE, dict |-> d]

Attributes(g1, g2, h1, h2) ==
  [grey1_data |-> g1, grey2_data |-> g2, hiddengrey1_data |-> h1, hiddengrey2_data |-> h2]

\* table.find_all("div", {"class": class})
find_all(region, class) == SelectSeq(region.divs, LAMBDA d : d.class = class)

_split_divs(table, divs) ==
  CASE BaseClass(table) = "_ThreeLevelDiv" -> _ThreeLevelDiv_split_divs(divs, Numeric(table))
    [] BaseClass(table) = "_FourLevelDiv" -> _FourLevelDiv_split_divs(divs, Numeric(table))
    [] BaseClass(table) = "Organism" -> Organism_split_divs(divs)

\* outcome of _get_table_divs: the four values, or the exception raised;
\* results lists what _parse_single_div did on each row, in call order
Located(attrs, results) ==
  [kind |-> "value", attrs |-> attrs, exc |-> "None", results |-> results]
LocateRaised(exc, results) ==
  [kind |-> "raise", attrs |-> Attributes(None, None, None, None), exc |-> exc,
   results |-> results]

\* mutant of find: the id attribute is not compared
find_any(soup, id) == 1..Len(soup)

\* soup.find("div", {"id": id}): the positions of the matching regions; the
\* first one is the region found, none is Python's None
find(soup, id) == { i \in 1..Len(soup) : soup[i].id = id }

\* the four _split_divs calls of _get_table_divs in order, given their
\* outcomes: the first exception propagates, and the later groups are not parsed
split_groups(g1, g2, h1, h2) ==
  IF g1.kind = "raise" THEN LocateRaised(g1.exc, g1.results)
  ELSE IF g2.kind = "raise" THEN LocateRaised(g2.exc, g1.results \o g2.results)
  ELSE IF h1.kind = "raise"
       THEN LocateRaised(h1.exc, g1.results \o g2.results \o h1.results)
  ELSE IF h2.kind = "raise"
       THEN LocateRaised(h2.exc, g1.results \o g2.results \o h1.results \o h2.results)
  ELSE Located(Attributes(Dict(g1.data), Dict(g2.data), Dict(h1.data), Dict(h2.data)),
               g1.results \o g2.results \o h1.results \o h2.results)

\* _get_table_divs once the region of the table is found
split_region(table, region) ==
  IF ~ \E i \in 1..Len(find_all(region, "header")) :
          Contains(table_name(table), find_all(region, "header")[i].text)
  THEN LocateRaised("AssertionError", << >>)
  ELSE split_groups(_split_divs(table, find_all(region, "row rgrey1")),
                    _split_divs(table, find_all(region, "row rgrey2")),
                    _split_divs(table, find_all(region, "hidden rgrey1")),
                    _split_divs(table, find_all(region, "hidden rgrey2")))

_get_table_divs(soup, table) ==
  IF find(soup, table_id(table)) = {}
  THEN Located(Attributes(None, None, None, None), << >>)
  ELSE split_region(table, soup[Min(find(soup, table_id(table)))])

(***************************************************************************)
(* get_data: merging the four per-group mappings.                          *)
(***************************************************************************)
AllNone(self) == /\ self.grey1_data = None
                 /\ self.grey2_data = None
                 /\ self.hiddengrey1_data = None
                 /\ self.hiddengrey2_data = None

\* [self.grey1_data, self.grey2_data, self.hiddengrey1_data, self.hiddengrey2_data]
DataList(self) == << self.grey1_data.dict, self.grey2_data.dict,
                     self.hiddengrey1_data.dict, self.hiddengrey2_data.dict >>

\* d.get(k), with a default for a missing key
Get(d, k, default) == IF k \in DOMAIN d THEN d[k] ELSE default

\* mutant of ThreeLevel_combine: a value already in the list is not added again
ThreeLevel_combine_dedup(combined_data, data) ==
  LET organisms == { o \in DOMAIN data : DOMAIN data[o] # {} } IN
  [o \in DOMAIN combined_data \cup organisms |->
     IF o \notin organisms THEN combined_data[o]
     ELSE LET old == Get(combined_data, o, EmptyDict) IN
          [u \in DOMAIN old \cup DOMAIN data[o] |->
             Get(old, u, << >>) \o
             SelectSeq(Get(data[o], u, << >>), LAMBDA x : ~ InList(x, Get(old, u, << >>)))]]

\* mutant of ThreeLevel_combine: organisms without identifier are copied too
ThreeLevel_combine_noguard(combined_data, data) ==
  [o \in DOMAIN combined_data \cup DOMAIN data |->
     LET old == Get(combined_data, o, EmptyDict) IN
     [u \in DOMAIN old \cup DOMAIN Get(data, o, EmptyDict) |->
        Get(old, u, << >>) \o Get(Get(data, o, EmptyDict), u, << >>)]]

\* one pass of the loop body of _ThreeLevelDiv.get_data over data
ThreeLevel_combine(combined_data, data) ==
  LET organisms == { o \in DOMAIN data : DOMAIN data[o] # {} } IN
  [o \in DOMAIN combined_data \cup organisms |->
     IF o \notin organisms THEN combined_data[o]
     ELSE LET old == Get(combined_data, o, EmptyDict) IN
          [u \in DOMAIN old \cup DOMAIN data[o] |->
             Get(old, u, << >>) \o Get(data[o], u, << >>)]]

\* one pass of the loop body of _FourLevelDiv.get_data over data
FourLevel_combine(combined_data, data) ==
  LET organisms == { o \in DOMAIN data : DOMAIN data[o] # {} } IN
  [o \in DOMAIN combined_data \cup organisms |->
     IF o \notin organisms THEN combined_data[o]
     ELSE LET old == Get(combined_data, o, EmptyDict) IN
          [u \in DOMAIN old \cup DOMAIN data[o] |->
             LET oldu == Get(old, u, EmptyDict)
                 newu == Get(data[o], u, EmptyDict)
             IN  [c \in DOMAIN oldu \cup DOMAIN newu |->
                    Get(oldu, c, << >>) \o Get(newu, c, << >>)]]]

\* one pass of the loop body of Organism.get_data over data
Organism_combine(combined_data, data) ==
  LET organisms == { o \in DOMAIN data : data[o] # << >> } IN
  [o \in DOMAIN combined_data \cup organisms |->
     Get(combined_data, o, << >>) \o (IF o \in organisms THEN data[o] ELSE << >>)]

\* mutant of _ThreeLevelDiv_get_data: the found_at_least_one_uniprot_id flag
\* is not consulted
_ThreeLevelDiv_get_data_noflag(self) ==
  IF AllNone(self) THEN None
  ELSE LET l == DataList(self)
       IN  Dict(ThreeLevel_combine(ThreeLevel_combine(ThreeLevel_combine(
             ThreeLevel_combine(EmptyDict, l[1]), l[2]), l[3]), l[4]))

_ThreeLevelDiv_get_data(self) ==
  IF AllNone(self) THEN None
  ELSE LET l == DataList(self)
           found_at_least_one_uniprot_id ==
             \E g \in 1..4 : \E o \in DOMAIN l[g] : DOMAIN l[g][o] # {}
           combined_data ==
             ThreeLevel_combine(ThreeLevel_combine(ThreeLevel_combine(
               ThreeLevel_combine(EmptyDict, l[1]), l[2]), l[3]), l[4])
       IN  IF found_at_least_one_uniprot_id THEN Dict(combined_data) ELSE None

_FourLevelDiv_get_data(self) ==
  IF AllNone(self) THEN None
  ELSE LET l == DataList(self)
           found_at_least_one_uniprot_id ==
             \E g \in 1..4 : \E o \in DOMAIN l[g] : \E u \in DOMAIN l[g][o] :
                DOMAIN l[g][o][u] # {}
           combined_data ==
             FourLevel_combine(FourLevel_combine(FourLevel_combine(
               FourLevel_combine(EmptyDict, l[1]), l[2]), l[3]), l[4])
       IN  IF found_at_least_one_uniprot_id THEN Dict(combined_data) ELSE None

Organism_get_data(self) ==
  IF AllNone(self) THEN None
  ELSE LET l == DataList(self)
           found_at_least_one_uniprot_id ==
             \E g \in 1..4 : \E o \in DOMAIN l[g] : l[g][o] # << >>
           combined_data ==
             Organism_combine(Organism_combine(Organism_combine(
               Organism_combine(EmptyDict, l[1]), l[2]), l[3]), l[4])
       IN  IF found_at_least_one_uniprot_id THEN Dict(combined_data) ELSE None

get_data(table, self) ==
  CASE BaseClass(table) = "_ThreeLevelDiv" -> _ThreeLevelDiv_get_data(self)
    [] BaseClass(table) = "_FourLevelDiv" -> _FourLevelDiv_get_data(self)
    [] BaseClass(table) = "Organism" -> Organism_get_data(self)

(***************************************************************************)
(* Object identity of what get_data returns.  A container (dict or list)   *)
(* of a mapping is named by its path of keys: << >> is the mapping itself, *)
(* << o >> the value of organism o, and so on down to the leaf lists.      *)
(***************************************************************************)
Paths1(m) == { << o >> : o \in DOMAIN m }
Paths2(m) == UNION { { << o, u >> : u \in DOMAIN m[o] } : o \in DOMAIN m }
Paths3(m) == UNION { { << p[1], p[2], c >> : c \in DOMAIN m[p[1]][p[2]] } : p \in Paths2(m) }

\* the lists of a mapping of the table
LeafPaths(table, m) ==
  CASE BaseClass(table) = "_ThreeLevelDiv" -> Paths2(m)
    [] BaseClass(table) = "_FourLevelDiv" -> Paths3(m)
    [] BaseClass(table) = "Organism" -> Paths1(m)

\* the dicts and lists of a mapping of the table
ContainerPaths(table, m) ==
  { << >> } \cup Paths1(m)
  \cup (IF BaseClass(table) = "Organism" THEN {} ELSE Paths2(m))
  \cup (IF BaseClass(table) = "_FourLevelDiv" THEN Paths3(m) ELSE {})

\* mutant of get_data_shared: the list first met for a key is stored in
\* combined_data itself instead of being copied into a new list
get_data_shared_first(table, self) ==
  UNION { { << g, p >> : p \in { q \in LeafPaths(table, DataList(self)[g]) :
                                   \A h \in 1..(g - 1) :
                                      q \notin LeafPaths(table, DataList(self)[h]) } }
          : g \in 1..4 }

\* The containers of the mapping get_data returns that are the very objects
\* of a per-group mapping, as pairs << group, path >>.  get_data binds
\* combined_data and every container below it to a new display ({} or []),
\* and fills the leaf lists with extend(), which copies the elements (floats
\* and strs, both immutable): no container is shared.
get_data_shared(table, self) == {}

\* container.clear() on the container at path p of mapping m
ClearAt(m, p) ==
  CASE Len(p) = 0 -> EmptyDict
    [] Len(p) = 1 -> [m EXCEPT ![p[1]] = << >>]
    [] Len(p) = 2 -> [m EXCEPT ![p[1]][p[2]] = << >>]
    [] Len(p) = 3 -> [m EXCEPT ![p[1]][p[2]][p[3]] = << >>]

\* what clearing the container at path p of the returned mapping does to the
\* per-group mappings: a group sees it when the container, or a container
\* holding it, is one of its own objects
clear_shared(self, shared, p) ==
  LET seen(g) == \E n \in 0..Len(p) : << g, SubSeq(p, 1, n) >> \in shared
      after(g, attr) == IF seen(g) THEN Dict(ClearAt(attr.dict, p)) ELSE attr
  IN  Attributes(after(1, self.grey1_data), after(2, self.grey2_data),
                 after(3, self.hiddengrey1_data), after(4, self.hiddengrey2_data))

(***************************************************************************)
(* Inputs: raw cells, rows and documents.                                  *)
(***************************************************************************)
\* number of row divs of a table region
MaxRows == 2
\* number of get_data calls on one object
MaxCalls == 2

v_37 == <<"3","7">>
v_0_5 == <<"0",".","5">>
v_12_0_14_0 == <<"1","2",".","0","-","1","4",".","0">>
v_5to7 == <<"5"," ","t","o"," ","7">>
v_1_2 == <<"1","-","2">>
v_2_3 == <<"2","-","3">>
v_0_2_0_4 == <<"0",".","2","-","0",".","4">>
v_minus5 == <<"-","5">>
v_minus5to7 == <<"-","5","t","o","7">>
v_additional_information == <<"a","d","d","i","t","i","o","n","a","l"," ","i","n","f","o","r","m","a","t","i","o","n">>
v_range_additional_information == <<"0",".","0","1","8"," ","-"," ",",","a","d","d","i","t","i","o","n","a","l"," ","i","n","f","o","r","m","a","t","i","o","n">>
v_range_additionalinformation == <<"0",".","0","1","8","-","a","d","d","i","t","i","o","n","a","l","i","n","f","o","r","m","a","t","i","o","n">>
v_additionalinformation_range == <<"a","d","d","i","t","i","o","n","a","l","i","n","f","o","r","m","a","t","i","o","n","-","0",".","0","1","8">>
v_abc == <<"a","b","c">>
v_5_7_9 == <<"5","-","7","-","9">>
v_5toabc == <<"5","t","o","a","b","c">>
v_0_5_0_5 == <<"0",".","5","-","0",".","5">>

Escherichia_coli_K12 == <<"E","s","c","h","e","r","i","c","h","i","a","_","c","o","l","i"," ","K","1","2">>
escherichia_coli == <<"e","s","c","h","e","r","i","c","h","i","a"," ","c","o","l","i">>
Escherichia_coli == <<"E","s","c","h","e","r","i","c","h","i","a"," ","c","o","l","i">>
Homo_sapiens == <<"H","o","m","o"," ","s","a","p","i","e","n","s">>
homo_sapiens_DSM_1 == <<"h","o","m","o"," ","s","a","p","i","e","n","s"," ","D","S","M"," ","1">>
Mus_musculus == <<"M","u","s"," ","m","u","s","c","u","l","u","s">>
Homo == <<"H","o","m","o">>
Homo_sapiens_dot == <<"H","o","m","o"," ","s","a","p","i","e","n","s",".">>
P12345 == <<"P","1","2","3","4","5">>
Q9XYZ1 == <<"Q","9","X","Y","Z","1">>
Q9XYZ2 == <<"Q","9","X","Y","Z","2">>
Q9XYZ1_Q9XYZ2 == <<"Q","9","X","Y","Z","1",",",","," ",",","Q","9","X","Y","Z","2">>
Q9XYZ1_UniProt == <<"Q","9","X","Y","Z","1"," ","U","n","i","P","r","o","t">>
no_id == <<"-">>
cofactor_X == <<"c","o","f","a","c","t","o","r"," ","X">>
literature == <<"7","1","2","3","4","5">>
LITERATURE == <<"L","I","T","E","R","A","T","U","R","E">>

\* get_text(',') of a row div: "\n" text nodes between the cells, joined by ','
RowText(cells) ==
  join(<< "\n" >>, << << >> >> \o [i \in 1..Len(cells) |-> << "," >> \o cells[i] \o << "," >>]
                   \o << << >> >>)

Div(class, cells, links) == [class |-> class, text |-> RowText(cells), links |-> links]

RowClasses == << "row rgrey1", "row rgrey2", "hidden rgrey1", "hidden rgrey2" >>

Row(cells, links) == [cells |-> cells, links |-> links]

\* value cells, as get_text(',') renders them
ValueCells ==
  << v_37, v_0_5, v_minus5, v_12_0_14_0, v_5to7, v_1_2, v_2_3, v_0_2_0_4, v_minus5to7,
     v_additional_information, v_range_additional_information,
     v_range_additionalinformation, v_additionalinformation_range,
     v_abc, v_5_7_9, v_5toabc, v_0_5_0_5 >>

\* the <a> texts of a row: a link inside the value cell, then the identifier
LinksOf(value, id) ==
  IF value = v_range_additional_information THEN << v_additional_information, id >>
  ELSE << id >>

\* rows of the depth-3 tables (value, organism, identifiers) that documents
\* combine freely
CommonRows3 ==
  << Row(<< v_37, Homo_sapiens, P12345 >>, << P12345 >>),
     Row(<< v_12_0_14_0, homo_sapiens_DSM_1, P12345 >>, << P12345 >>),
     Row(<< v_37, Mus_musculus, no_id >>, << >>),
     Row(<< v_additional_information, Mus_musculus, Q9XYZ1 >>, << Q9XYZ1 >>),
     Row(<< v_abc, Homo_sapiens, Q9XYZ1 >>, << Q9XYZ1 >>) >>

\* one row per value cell, a decoration row, a row cut short, rows with a
\* one-word organism and an organism ending in ".", and rows whose identifier
\* is plain text (no <a>), alone or followed by commentary in the same text
ExtraRows3 ==
  [i \in 1..Len(ValueCells) |->
     Row(<< ValueCells[i], Homo_sapiens, Q9XYZ1 >>, LinksOf(ValueCells[i], Q9XYZ1))]
  \o << Row(<< LITERATURE >>, << >>), Row(<< v_37, Homo_sapiens >>, << >>),
        Row(<< v_37, Homo, Q9XYZ1 >>, << Q9XYZ1 >>),
        Row(<< v_37, Homo_sapiens_dot, Q9XYZ1 >>, << Q9XYZ1 >>),
        Row(<< v_37, Homo_sapiens, P12345 >>, << >>),
        Row(<< v_37, Homo_sapiens, Q9XYZ1_UniProt >>, << >>) >>

\* rows of the depth-4 tables: value, information, organism, identifiers
CommonRows4 ==
  << Row(<< v_0_5, cofactor_X, Homo_sapiens, P12345 >>, << P12345 >>),
     Row(<< v_12_0_14_0, cofactor_X, homo_sapiens_DSM_1, P12345 >>, << P12345 >>),
     Row(<< v_0_5, cofactor_X, Mus_musculus, no_id >>, << >>),
     Row(<< v_additional_information, cofactor_X, Mus_musculus, Q9XYZ1 >>, << Q9XYZ1 >>),
     Row(<< v_abc, cofactor_X, Homo_sapiens, Q9XYZ1 >>, << Q9XYZ1 >>) >>

ExtraRows4 ==
  [i \in 1..Len(ValueCells) |->
     Row(<< ValueCells[i], cofactor_X, Homo_sapiens, Q9XYZ1 >>, LinksOf(ValueCells[i], Q9XYZ1))]
  \o << Row(<< LITERATURE >>, << >>), Row(<< v_0_5, cofactor_X >>, << >>),
        Row(<< v_0_5, cofactor_X, Homo, Q9XYZ1 >>, << Q9XYZ1 >>),
        Row(<< v_0_5, cofactor_X, Homo_sapiens_dot, Q9XYZ1 >>, << Q9XYZ1 >>),
        Row(<< v_0_5, cofactor_X, Homo_sapiens, P12345 >>, << >>),
        Row(<< v_0_5, cofactor_X, Homo_sapiens, Q9XYZ1_UniProt >>, << >>) >>

\* rows of the organism table: organism, commentary, literature, identifiers
CommonRowsOrganism ==
  << Row(<< Homo_sapiens, no_id, literature, Q9XYZ1 >>, << Q9XYZ1 >>),
     Row(<< homo_sapiens_DSM_1, no_id, literature, Q9XYZ1_Q9XYZ2 >>, << Q9XYZ1, Q9XYZ2 >>),
     Row(<< Mus_musculus, no_id, literature, no_id >>, << >>),
     Row(<< LITERATURE >>, << >>) >>

ExtraRowsOrganism ==
  << Row(<< Escherichia_coli_K12, no_id, literature, P12345 >>, << P12345 >>),
     Row(<< Homo_sapiens, no_id >>, << >>),
     Row(<< Homo, no_id, literature, Q9XYZ1 >>, << Q9XYZ1 >>),
     Row(<< Homo_sapiens_dot, no_id, literature, Q9XYZ1 >>, << Q9XYZ1 >>),
     Row(<< Homo_sapiens, no_id, literature, P12345 >>, << >>),
     Row(<< Homo_sapiens, no_id, literature, Q9XYZ1_UniProt >>, << >>) >>

CommonRows(table) ==
  CASE BaseClass(table) = "_ThreeLevelDiv" -> CommonRows3
    [] BaseClass(table) = "_FourLevelDiv" -> CommonRows4
    [] BaseClass(table) = "Organism" -> CommonRowsOrganism

ExtraRows(table) ==
  CASE BaseClass(table) = "_ThreeLevelDiv" -> ExtraRows3
    [] BaseClass(table) = "_FourLevelDiv" -> ExtraRows4
    [] BaseClass(table) = "Organism" -> ExtraRowsOrganism

RowsOf(table) == CommonRows(table) \o ExtraRows(table)

Header(text) == [class |-> "header", text |-> text, links |-> << >>]

\* header divs of a region: none holds the table name, or one does
HeaderLists(table) ==
  << << Header(LITERATURE) >>,
     << Header(LITERATURE), Header(table_name(table) \o << " " >>) >> >>

OtherId == "tab99"

\* The document with one region: its id is the table's or another one, its
\* header divs are HeaderLists[h], and its row divs are picked by pick, a
\* sequence of << row, class >> indices.
Soup(table, own, h, pick) ==
  << [id   |-> IF own THEN table_id(table) ELSE OtherId,
      divs |-> HeaderLists(table)[h] \o
               [i \in 1..Len(pick) |->
                  Div(RowClasses[pick[i][2]], RowsOf(table)[pick[i][1]].cells,
                      RowsOf(table)[pick[i][1]].links)]] >>

Words == { << "a" >>, << "B", "c" >> }
Separators == { << " " >>, << "_" >> }

\* word (sep word)* with n words
RECURSIVE NamesOfWords(_)
NamesOfWords(n) ==
  IF n = 1 THEN Words
  ELSE { p \o s \o w : p \in NamesOfWords(n - 1), s \in Separators, w \in Words }

RECURSIVE NamesUpTo(_)
NamesUpTo(n) == IF n = 0 THEN {} ELSE NamesOfWords(n) \cup NamesUpTo(n - 1)

OrganismNames == NamesUpTo(MaxWords) \cup { Escherichia_coli_K12, escherichia_coli }

(***************************************************************************)
(* State.                                                                  *)
(***************************************************************************)
VARIABLES
  table,        \* the table class being instantiated
  soup,         \* the document handed to its constructor
  pc,           \* "new": before __init__; "parsed": constructed; "raised": __init__ raised
  self,         \* the four *_data attributes of the object
  exc,          \* the exception __init__ raised, or "None"
  row_results,  \* what _parse_single_div did on each row __init__ handed to it
  calls,        \* how many times get_data was called
  returned,     \* what the last get_data call returned
  held,         \* the objects get_data returned so far, as the caller left them
  shared,       \* containers of the last returned object that a row-group owns
  name,         \* an organism cell
  once,         \* _normalize_name(name)
  twice         \* _normalize_name(once)

vars == << table, soup, pc, self, exc, row_results, calls, returned, held, shared,
          name, once, twice >>
tvars == << table, soup, pc, self, exc, row_results, calls, returned, held, shared >>
nvars == << name, once, twice >>

Unset == << "<unset>" >>
Unassigned == Attributes(None, None, None, None)

TableIdle == /\ table = "Organism"
             /\ soup = << >>
             /\ pc = "idle"
             /\ self = Unassigned
             /\ exc = "None"
             /\ row_results = << >>
             /\ calls = 0
             /\ returned = None
             /\ held = << >>
             /\ shared = {}

NormIdle == /\ name = Unset
            /\ once = Unset
            /\ twice = Unset

(***************************************************************************)
(* Table extraction: the constructor, then get_data.                       *)
(***************************************************************************)
\* The document is empty, or has one region.  Regions of the table with a
\* matching header hold up to MaxRows of the common rows, in any classes and
\* any order; every row, common or extra, also comes alone, and with
\* every kind of region.
TableInit ==
  /\ table \in TableClasses
  /\ \/ soup = << >>
     \/ \E own \in BOOLEAN, h \in 1..2 : soup = Soup(table, own, h, << >>)
     \/ \E own \in BOOLEAN, h \in 1..2, r \in 1..Len(RowsOf(table)), c \in 1..4 :
          soup = Soup(table, own, h, << << r, c >> >>)
     \/ \E n \in 2..MaxRows :
          \E pick \in [1..n -> (1..Len(CommonRows(table))) \X (1..4)] :
             soup = Soup(table, TRUE, 2, pick)
  /\ pc = "new"
  /\ self = Unassigned
  /\ exc = "None"
  /\ row_results = << >>
  /\ calls = 0
  /\ returned = None
  /\ held = << >>
  /\ shared = {}

Init == TableInit /\ NormIdle

\* __init__: _parse() assigns the four attributes from _get_table_divs(), or
\* the exception leaves the caller without an object
Construct ==
  /\ pc = "new"
  /\ \E r \in { _get_table_divs(soup, table) } :
       /\ pc' = IF r.kind = "raise" THEN "raised" ELSE "parsed"
       /\ self' = r.attrs
       /\ exc' = r.exc
       /\ row_results' = r.results
  /\ UNCHANGED << table, soup, calls, returned, held, shared, nvars >>

\* a get_data() call; the caller keeps the object it returns
GetData ==
  /\ pc = "parsed"
  /\ calls < MaxCalls
  /\ returned' = get_data(table, self)
  /\ held' = Append(held, returned')
  /\ shared' = get_data_shared(table, self)
  /\ calls' = calls + 1
  /\ UNCHANGED << table, soup, pc, self, exc, row_results, nvars >>

Next == Construct \/ GetData

Spec == Init /\ [][Next]_vars

(***************************************************************************)
(* Table extraction with a caller that changes what get_data returned.     *)
(***************************************************************************)
\* between two get_data() calls the caller clears one dict or list of the
\* mapping it was handed
Mutate ==
  /\ pc = "parsed"
  /\ calls > 0 /\ calls < MaxCalls
  /\ ~ returned.none
  /\ held[Len(held)] = returned
  /\ \E p \in ContainerPaths(table, returned.dict) :
       /\ held' = [held EXCEPT ![Len(held)] = Dict(ClearAt(returned.dict, p))]
       /\ self' = clear_shared(self, shared, p)
  /\ UNCHANGED << table, soup, pc, exc, row_results, calls, returned, shared, nvars >>

MNext == Construct \/ GetData \/ Mutate

SpecMutate == Init /\ [][MNext]_vars

(***************************************************************************)
(* Organism normalization on its own.                                      *)
(***************************************************************************)
NInit == /\ TableIdle
         /\ name \in OrganismNames
         /\ once = Unset
         /\ twice = Unset

\* the caller normalizes a raw organism cell
Normalize == /\ name # Unset
             /\ once = Unset
             /\ once' = _normalize_name(name)
             /\ UNCHANGED << name, twice, tvars >>

\* the normalized name is normalized again
Renormalize == /\ once # Unset
               /\ twice = Unset
               /\ twice' = _normalize_name(once)
               /\ UNCHANGED << name, once, tvars >>

NNext == Normalize \/ Renormalize

SpecNorm == NInit /\ [][NNext]_vars

(***************************************************************************)
(* Claims.                                                                 *)
(***************************************************************************)
RowClassSet == { "row rgrey1", "row rgrey2", "hidden rgrey1", "hidden rgrey2" }

\* the document has a region with the table's identifier
TablePresent == \E i \in 1..Len(soup) : soup[i].id = table_id(table)

\* the divs of that region (the documents here have at most one region)
RegionDivs == IF TablePresent THEN soup[1].divs ELSE << >>

\* some labelled header of the region contains the expected header substring
HeaderMatches ==
  \E i \in 1..Len(RegionDivs) :
     /\ RegionDivs[i].class = "header"
     /\ \E k \in 0..Len(RegionDivs[i].text) :
          /\ k + Len(table_name(table)) <= Len(RegionDivs[i].text)
          /\ \A j \in 1..Len(table_name(table)) :
               RegionDivs[i].text[k + j] = table_name(table)[j]

OfClass(class) == SelectSeq(RegionDivs, LAMBDA d : d.class = class)

\* the rows of the four row-groups, in the order the constructor parses them
RowDivs == OfClass("row rgrey1") \o OfClass("row rgrey2")
           \o OfClass("hidden rgrey1") \o OfClass("hidden rgrey2")

NumParts(div) == Len(split(div.text, << "\n" >>))

\* the value cell of a row, commas stripped and spaces removed
ValueOf(div) == remove(strip(split(div.text, << "\n" >>)[2], ","), " ")

HasValueCell == BaseClass(table) \in { "_ThreeLevelDiv", "_FourLevelDiv" }

\* a two-value range delimited by sep with numeric bounds
IsRange(v, sep) == /\ Len(split(v, sep)) = 2
                   /\ float(split(v, sep)[1]).ok
                   /\ float(split(v, sep)[2]).ok

RangeMean(v, sep) == round_mean(float(split(v, sep)[1]), float(split(v, sep)[2]))

\* neither directly numeric, nor a numeric range, nor the sentinel
Unrecognized(v) == /\ ~ float(v).ok
                   /\ ~ IsRange(v, << "-" >>)
                   /\ ~ IsRange(v, << "t", "o" >>)
                   /\ v # additionalinformation

\* a "-"-delimited two-part cell one of whose parts is the text b
HasBound(v, b) == /\ Len(split(v, << "-" >>)) = 2
                  /\ b \in { split(v, << "-" >>)[1], split(v, << "-" >>)[2] }

\* the key's list in one per-group mapping of a depth-3 table
Leaf3(data, o, u) == IF o \in DOMAIN data /\ u \in DOMAIN data[o] THEN data[o][u] ELSE << >>

\* the key's list in one per-group mapping of a depth-4 table
Leaf4(data, o, u, c) ==
  IF o \in DOMAIN data /\ u \in DOMAIN data[o] /\ c \in DOMAIN data[o][u]
  THEN data[o][u][c] ELSE << >>

Keys3(data) == UNION { { << o, u >> : u \in DOMAIN data[o] } : o \in DOMAIN data }

Keys4(data) ==
  UNION { { << k[1], k[2], c >> : c \in DOMAIN data[k[1]][k[2]] } : k \in Keys3(data) }

\* C1: merging is additive and ordered: in what get_data returns, the list of
\* every key (organism, identifier[, condition]) is the concatenation of the
\* key's lists of the four per-group mappings, visible-primary first, then
\* visible-secondary, hidden-primary, hidden-secondary, repeats included.
C1_MergeAdditiveOrdered ==
  (pc = "parsed" /\ calls > 0 /\ HasValueCell /\ ~ AllNone(self)) =>
     LET l == DataList(self)
         m == returned.dict
     IN  IF BaseClass(table) = "_ThreeLevelDiv"
         THEN \A k \in Keys3(m) \cup UNION { Keys3(l[g]) : g \in 1..4 } :
                /\ ~ returned.none
                /\ k \in Keys3(m)
                /\ m[k[1]][k[2]] = Leaf3(l[1], k[1], k[2]) \o Leaf3(l[2], k[1], k[2])
                                   \o Leaf3(l[3], k[1], k[2]) \o Leaf3(l[4], k[1], k[2])
         ELSE \A k \in Keys4(m) \cup UNION { Keys4(l[g]) : g \in 1..4 } :
                /\ ~ returned.none
                /\ k \in Keys4(m)
                /\ m[k[1]][k[2]][k[3]] =
                     Leaf4(l[1], k[1], k[2], k[3]) \o Leaf4(l[2], k[1], k[2], k[3])
                     \o Leaf4(l[3], k[1], k[2], k[3]) \o Leaf4(l[4], k[1], k[2], k[3])

\* C1 witness: the row (0.5, cofactor X, Homo sapiens, P12345) in a visible and
\* in a hidden group gives the leaf [0.5, 0.5]
C1_Witness ==
  /\ table = "Km" /\ pc = "parsed" /\ calls > 0
  /\ Leaf4(self.grey1_data.dict, Homo_sapiens, P12345, cofactor_X) = << Num(5, 10) >>
  /\ Leaf4(self.hiddengrey1_data.dict, Homo_sapiens, P12345, cofactor_X) = << Num(5, 10) >>
  /\ returned = Dict(Homo_sapiens :> (P12345 :> (cofactor_X :> << Num(5, 10), Num(5, 10) >>)))

\* C2: when the document has no region with the table's identifier, the
\* constructor does not raise, the four row-groups are None and get_data
\* returns None, for every table class.
C2_AbsentTableNoData ==
  (pc # "new" /\ ~ TablePresent) =>
     /\ pc = "parsed"
     /\ exc = "None"
     /\ AllNone(self)
     /\ row_results = << >>
     /\ calls > 0 => returned = None

\* C2 witness: a document whose only region has another identifier (and rows)
C2_Witness ==
  /\ soup # << >> /\ ~ TablePresent /\ Len(soup[1].divs) > 1
  /\ pc = "parsed" /\ calls > 0 /\ returned = None

\* C3: when the region exists and none of its headers contains the expected
\* substring, the constructor fails with the assertion before any row is
\* parsed, and there is no object to ask for a result; when a header contains
\* it, the assertion does not fail and the rows of the four groups are parsed.
C3_HeaderMismatchFatal ==
  (pc # "new" /\ TablePresent) =>
     IF ~ HeaderMatches
     THEN /\ pc = "raised"
          /\ exc = "AssertionError"
          /\ row_results = << >>
          /\ self = Unassigned
          /\ calls = 0
     ELSE /\ exc # "AssertionError"
          /\ pc = "parsed" =>
               /\ Len(row_results) = Len(RowDivs)
               /\ ~ self.grey1_data.none /\ ~ self.grey2_data.none
               /\ ~ self.hiddengrey1_data.none /\ ~ self.hiddengrey2_data.none
          /\ pc = "raised" =>
               /\ row_results # << >>
               /\ row_results[Len(row_results)].kind = "raise"

\* C3 witness: a region of the table with rows but without the header
C3_Witness ==
  /\ TablePresent /\ ~ HeaderMatches /\ RowDivs # << >>
  /\ pc = "raised"

\* a row gave a record linked to at least one identifier
LinkedRecord(result) == result.kind = "value" /\ result.v.uniprot_id_list # << >>

\* C4: when the table block exists, get_data returns None exactly when no row
\* of the four groups gave a record linked to at least one identifier.
C4_NoDataIffNoLinkedRecord ==
  (pc = "parsed" /\ TablePresent /\ calls > 0) =>
     (returned = None <=>
        ~ \E i \in 1..Len(row_results) : LinkedRecord(row_results[i]))

\* C4 witness: a table block whose only records have no identifier
C4_Witness ==
  /\ pc = "parsed" /\ TablePresent /\ calls > 0 /\ returned = None
  /\ \E i \in 1..Len(row_results) :
       row_results[i].kind = "value" /\ row_results[i].v.uniprot_id_list = << >>

\* the rows whose value cell satisfies P make the parser raise, and a table
\* holding one gives no object and no result
RaisesOn(P(_)) ==
  (pc # "new" /\ HasValueCell /\ Numeric(table) /\ TablePresent /\ HeaderMatches) =>
     /\ \A i \in 1..Len(row_results) :
          (NumParts(RowDivs[i]) > 3 /\ P(ValueOf(RowDivs[i]))) => row_results[i].kind = "raise"
     /\ (\E i \in 1..Len(RowDivs) : NumParts(RowDivs[i]) > 3 /\ P(ValueOf(RowDivs[i]))) =>
          /\ pc = "raised"
          /\ exc = "ValueError"
          /\ self = Unassigned
          /\ calls = 0

\* C5 as stated: in a numeric table, a value cell that is neither directly
\* numeric, nor a numeric range, nor the sentinel raises a fatal parse error
\* and the table gives no result.
C5_UnrecognizedValueRaises == RaisesOn(Unrecognized)

UnrecognizedUnlinked(v) == Unrecognized(v) /\ ~ HasBound(v, comma_additionalinformation)

\* C5 amended: in a numeric table, a value cell that is neither directly
\* numeric, nor a numeric range, nor the sentinel, nor a "-"-delimited two-part
\* cell with a part equal to ",additionalinformation", raises a fatal parse
\* error: the row is not skipped, and the table gives no result even when
\* other rows are valid.
C5_UnrecognizedValueRaisesAmended == RaisesOn(UnrecognizedUnlinked)

\* C5 witness: a valid row was parsed, then a row with an unrecognized value
C5_Witness ==
  /\ Numeric(table) /\ pc = "raised" /\ exc = "ValueError"
  /\ Len(row_results) = 2
  /\ LinkedRecord(row_results[1])
  /\ ValueOf(RowDivs[2]) = v_abc

\* a row of a numeric table that has all its cells
FullNumericRow(i) ==
  /\ Numeric(table)
  /\ NumParts(RowDivs[i]) > (IF BaseClass(table) = "_FourLevelDiv" THEN 4 ELSE 3)

\* C6: in a numeric table, a value cell that fails direct numeric parsing and
\* is a two-value range "a-b" or "atob" with numeric bounds becomes the rounded
\* mean of a and b ("12.0-14.0" gives 13, "5to7" gives 6); a directly numeric
\* cell keeps its parsed number.
C6_RangeIsRoundedMean ==
  (pc # "new" /\ HasValueCell /\ TablePresent /\ HeaderMatches) =>
     \A i \in 1..Len(row_results) :
        FullNumericRow(i) =>
          LET v == ValueOf(RowDivs[i]) IN
          /\ float(v).ok =>
               /\ row_results[i].kind = "value"
               /\ row_results[i].v.value = Num(float(v).n, float(v).d)
          /\ (~ float(v).ok /\ IsRange(v, << "-" >>)) =>
               /\ row_results[i].kind = "value"
               /\ row_results[i].v.value = Num(RangeMean(v, << "-" >>), 1)
          /\ (~ float(v).ok /\ IsRange(v, << "t", "o" >>)) =>
               /\ row_results[i].kind = "value"
               /\ row_results[i].v.value = Num(RangeMean(v, << "t", "o" >>), 1)
          /\ v = remove(v_12_0_14_0, " ") => row_results[i].v.value = Num(13, 1)
          /\ v = remove(v_5to7, " ") => row_results[i].v.value = Num(6, 1)

\* C7: in a numeric table, a "-"-delimited two-part value cell with a bound
\* that is literally "additionalinformation" makes the row parser return None,
\* and never raise.
C7_SentinelBoundRejected ==
  (pc # "new" /\ HasValueCell /\ TablePresent /\ HeaderMatches) =>
     \A i \in 1..Len(row_results) :
        (FullNumericRow(i) /\ HasBound(ValueOf(RowDivs[i]), additionalinformation)) =>
           row_results[i].kind = "None"

IsSentinelRow(div) ==
  div.class \in RowClassSet /\ NumParts(div) > 3 /\ ValueOf(div) = additionalinformation

\* the document without its rows whose value cell is the sentinel
WithoutSentinelRows ==
  [i \in 1..Len(soup) |->
     [soup[i] EXCEPT !.divs = SelectSeq(@, LAMBDA d : ~ IsSentinelRow(d))]]

\* C8: in tables of depth 3 and 4, numeric or not, a row whose value cell is
\* exactly "additionalinformation" makes the row parser return None, the other
\* rows are still parsed, and the per-group mappings and the final result are
\* those of the document without that row.
C8_SentinelRowDropped ==
  (pc # "new" /\ HasValueCell /\ TablePresent /\ HeaderMatches) =>
     /\ \A i \in 1..Len(row_results) :
          IsSentinelRow(RowDivs[i]) => row_results[i].kind = "None"
     /\ pc = "parsed" =>
          /\ Len(row_results) = Len(RowDivs)
          /\ self = _get_table_divs(WithoutSentinelRows, table).attrs
          /\ calls > 0 =>
               returned = get_data(table, _get_table_divs(WithoutSentinelRows, table).attrs)

\* C8 witness: a sentinel row followed, in the same group of a non-numeric
\* table, by a row that gives a record, and the result returned
C8_Witness ==
  /\ table = "Cofactor" /\ pc = "parsed" /\ calls > 0 /\ ~ returned.none
  /\ Len(RowDivs) = 2
  /\ RowDivs[1].class = RowDivs[2].class
  /\ IsSentinelRow(RowDivs[1])
  /\ row_results[1].kind = "None"
  /\ LinkedRecord(row_results[2])

\* C9: both "Escherichia_coli K12" and "escherichia coli" normalize to
\* "Escherichia coli".
C9_ExamplesNormalize ==
  (name \in { Escherichia_coli_K12, escherichia_coli } /\ once # Unset) => once = Escherichia_coli

\* C10: normalizing an already normalized organism name changes nothing.
C10_Idempotent == twice # Unset => twice = once

IsUpper(c) == \E i \in 1..26 : UpperChars[i] = c
IsLower(c) == \E i \in 1..26 : LowerChars[i] = c
IsAlnumUpper(c) == IsUpper(c) \/ IsDigit(c)

\* the organism keys of the four per-group mappings and of the last result
OrganismKeys ==
  UNION { DOMAIN DataList(self)[g] : g \in 1..4 }
  \cup (IF calls > 0 THEN DOMAIN returned.dict ELSE {})

\* genus and species: two tokens, none ending in "." or ",", a capitalized
\* first letter and no other upper-case letter
CanonicalKey(o) ==
  /\ Len(split_ws(o)) = 2
  /\ \A k \in 1..Len(split_ws(o)) :
       split_ws(o)[k][Len(split_ws(o)[k])] \notin { ".", "," }
  /\ ~ IsLower(o[1])
  /\ \A i \in 2..Len(o) : ~ IsUpper(o[i])

\* C11: every organism key of every per-group mapping and of the final result
\* is exactly two whitespace-separated tokens, with trailing "." and ","
\* stripped from the tokens, lower-case except a capitalized first letter,
\* whatever the raw organism cell held.
C11_OrganismKeysCanonical ==
  pc = "parsed" => \A o \in OrganismKeys : CanonicalKey(o)

\* the accession pattern: [OPQ][0-9][A-Z0-9]{3}[0-9], or
\* [A-NR-Z][0-9]([A-Z][A-Z0-9]{2}[0-9]){1,2}
AccessionGroup(s, k) ==
  /\ IsUpper(s[k]) /\ IsAlnumUpper(s[k + 1]) /\ IsAlnumUpper(s[k + 2]) /\ IsDigit(s[k + 3])

IsAccession(s) ==
  \/ /\ Len(s) = 6
     /\ s[1] \in { "O", "P", "Q" }
     /\ IsDigit(s[2])
     /\ IsAlnumUpper(s[3]) /\ IsAlnumUpper(s[4]) /\ IsAlnumUpper(s[5])
     /\ IsDigit(s[6])
  \/ /\ Len(s) \in { 6, 10 }
     /\ IsUpper(s[1]) /\ s[1] \notin { "O", "P", "Q" }
     /\ IsDigit(s[2])
     /\ AccessionGroup(s, 3)
     /\ Len(s) = 10 => AccessionGroup(s, 7)

\* the position of the identifier cell among the newline-delimited parts
IdPart == IF BaseClass(table) = "_ThreeLevelDiv" THEN 4 ELSE 5

\* the tokens of the identifier cell of a row that has one
IdTokens(div) == split_ids(split(div.text, << "\n" >>)[IdPart])

\* C12: where a valid accession has commentary glued onto the same token of
\* the identifier cell, filtering keeps the clean accession in the record's
\* identifier list and not the polluted token; a token is retained if it is
\* among the row's inline-link texts or itself matches the accession pattern.
C12_GluedCommentaryFiltered ==
  (pc # "new" /\ TablePresent /\ HeaderMatches) =>
     \A i \in 1..Len(row_results) :
        row_results[i].kind = "value" =>
          \A k \in 1..Len(IdTokens(RowDivs[i])) :
             LET t  == IdTokens(RowDivs[i])[k]
                 l  == row_results[i].v.uniprot_id_list
             IN  /\ (t # << >> /\ (InList(t, RowDivs[i].links) \/ IsAccession(t))) =>
                      InList(t, l)
                 /\ \A n \in 1..(Len(t) - 1) :
                      (/\ IsAccession(SubSeq(t, 1, n))
                       /\ ~ IsAccession(t)
                       /\ ~ InList(t, RowDivs[i].links)) =>
                         /\ InList(SubSeq(t, 1, n), l)
                         /\ ~ InList(t, l)

unknown == <<"u","n","k","n","o","w","n">>

\* a row with all its parts whose value cell, if it has one, gives a value
OtherwiseValid(div) ==
  /\ NumParts(div) >= IdPart
  /\ HasValueCell => parse_value(split(div.text, << "\n" >>)[2], Numeric(table)).kind = "value"

\* no token of the identifier cell is a link text or an accession
NoTokenRetained(div) ==
  \A k \in 1..Len(IdTokens(div)) :
     LET t == IdTokens(div)[k]
     IN  t = << >> \/ (~ InList(t, div.links) /\ ~ IsAccession(t))

\* C13: when identifier filtering of an otherwise valid row yields no tokens,
\* the row parser returns a Record whose identifier list is ["unknown"]: the
\* record is retained and its identifier list is never empty.
C13_NoIdentifierGivesUnknown ==
  (pc # "new" /\ TablePresent /\ HeaderMatches) =>
     \A i \in 1..Len(row_results) :
        /\ row_results[i].kind = "value" => row_results[i].v.uniprot_id_list # << >>
        /\ (OtherwiseValid(RowDivs[i]) /\ NoTokenRetained(RowDivs[i])) =>
             /\ row_results[i].kind = "value"
             /\ row_results[i].v.uniprot_id_list = << unknown >>

\* the code point order of the characters of identifiers
CharOrder == DigitChars \o UpperChars \o LowerChars
Rank(c) == CHOOSE i \in 1..Len(CharOrder) : CharOrder[i] = c

\* a < b for Python strs
StrLess(a, b) ==
  \E k \in 1..(Len(b)) :
     /\ k <= Len(a) + 1
     /\ SubSeq(a, 1, k - 1) = SubSeq(b, 1, k - 1)
     /\ k = Len(a) + 1 \/ Rank(a[k]) < Rank(b[k])

\* C14: for the organism-only table, the final per-organism identifier
\* collection holds each identifier at most once and is sorted, however many
\* rows and row-groups mention it: two rows of one organism mentioning
\* "Q9XYZ1" and "Q9XYZ1, Q9XYZ2" give exactly ["Q9XYZ1", "Q9XYZ2"].
C14_OrganismIdsSortedUnique ==
  (table = "Organism" /\ pc = "parsed" /\ calls > 0 /\ ~ returned.none) =>
     /\ \A o \in DOMAIN returned.dict :
          \A i \in 1..(Len(returned.dict[o]) - 1) :
             StrLess(returned.dict[o][i], returned.dict[o][i + 1])
     /\ (/\ Len(row_results) = 2
         /\ LinkedRecord(row_results[1]) /\ LinkedRecord(row_results[2])
         /\ row_results[1].v.organism = row_results[2].v.organism
         /\ row_results[1].v.uniprot_id_list = << Q9XYZ1 >>
         /\ row_results[2].v.uniprot_id_list = << Q9XYZ1, Q9XYZ2 >>) =>
           returned.dict[row_results[1].v.organism] = << Q9XYZ1, Q9XYZ2 >>

\* C15: in every non-None result of get_data no empty container appears:
\* every organism maps to a non-empty identifier mapping (a non-empty list for
\* the organism table), every identifier to a non-empty value list or
\* condition mapping, every leaf list is non-empty; an organism all of whose
\* rows have no retained identifier is not a key.
C15_NoEmptyContainer ==
  (pc = "parsed" /\ calls > 0 /\ ~ returned.none) =>
     /\ DOMAIN returned.dict # {}
     /\ \A o \in DOMAIN returned.dict :
          /\ \E i \in 1..Len(row_results) :
               LinkedRecord(row_results[i]) /\ row_results[i].v.organism = o
          /\ IF BaseClass(table) = "Organism" THEN Len(returned.dict[o]) > 0
             ELSE /\ DOMAIN returned.dict[o] # {}
                  /\ \A u \in DOMAIN returned.dict[o] :
                       IF BaseClass(table) = "_ThreeLevelDiv"
                       THEN Len(returned.dict[o][u]) > 0
                       ELSE /\ DOMAIN returned.dict[o][u] # {}
                            /\ \A c \in DOMAIN returned.dict[o][u] :
                                 Len(returned.dict[o][u][c]) > 0

\* C15 witness: a result was returned although the rows of one organism gave
\* records without identifier; that organism is not among its keys
C15_Witness ==
  /\ pc = "parsed" /\ calls > 0 /\ ~ returned.none
  /\ \E i \in 1..Len(row_results) :
       /\ row_results[i].kind = "value"
       /\ row_results[i].v.uniprot_id_list = << >>
       /\ row_results[i].v.organism \notin DOMAIN returned.dict

\* C16: in a non-numeric table of any depth, a row with any number of parts
\* makes the row parser return a Record or None and never raise: fewer than 4
\* parts give None, 4 or more parts (exactly 4 included) a Record or None.
C16_NonNumericNeverRaises ==
  (pc # "new" /\ ~ Numeric(table) /\ TablePresent /\ HeaderMatches) =>
     /\ pc = "parsed"
     /\ \A i \in 1..Len(row_results) :
          /\ row_results[i].kind \in { "value", "None" }
          /\ NumParts(RowDivs[i]) < 4 => row_results[i].kind = "None"

\* x <= y for exact fractions with positive denominators
Leq(x, y) == x.n * y.d <= y.n * x.d

RangeSeparators == { << "-" >>, << "t", "o" >> }

\* C18: in a numeric table, the value recorded for a two-value range cell with
\* non-negative numeric bounds a <= b lies within the range: a <= value <= b
\* (sub-unit ranges such as "0.2-0.4" and degenerate ones such as "0.5-0.5"
\* included).
C18_RangeValueWithinBounds ==
  (pc # "new" /\ HasValueCell /\ TablePresent /\ HeaderMatches) =>
     \A i \in 1..Len(row_results) :
        FullNumericRow(i) =>
          \A sep \in RangeSeparators :
             LET v == ValueOf(RowDivs[i])
                 a == float(split(v, sep)[1])
                 b == float(split(v, sep)[2])
             IN  (/\ ~ float(v).ok
                  /\ IsRange(v, sep)
                  /\ a.n >= 0
                  /\ Leq(a, b)) =>
                    /\ row_results[i].kind = "value"
                    /\ Leq(a, row_results[i].v.value)
                    /\ Leq(row_results[i].v.value, b)

====
